---- MODULE Spec2Model ----
(***************************************************************************)
(* A model of the gdb pretty printers of blender_pretty_printers:          *)
(*   src/experiments.py   struct printers, the dummy-value channel,        *)
(*                        linked-list walks, dispatch                      *)
(*   src/blender_gdb.py   the earlier snapshot of the same engine          *)
(*   src/command_test.py  container printers and the `bp` command          *)
(* The module holds one state machine per part of the program.  Each part  *)
(* has its own variables, its own initial condition and its own actions;   *)
(* a specification runs one part and leaves the variables of the other     *)
(* parts at their idle values.                                             *)
(***************************************************************************)
EXTENDS Integers, Sequences, FiniteSets, TLC

(***************************************************************************)
(* Bounds of the model.                                                    *)
(***************************************************************************)
\* Number of list nodes in the inferior's memory (addresses 1..NumNodes).
NumNodes == 3
\* Cap on the length of one pointer chain: a walk that never stops in the
\* program is cut here in the model.
MaxChain == 5
\* Largest number of links of a ListBase a struct printer renders.
MaxLinks == 2
\* Largest number of code points of an encoded text.
MaxTextLen == 2
\* Number of script loads (registrations) in one gdb session.
MaxLoads == 3
\* Largest number of slots of a Set or Map, and of elements of a Vector.
MaxSlots == 3
\* Width in bits of a pointer key of the model (64 in the program).
PointerBits == 3
\* Largest size_ of a VArray.
MaxSize == 3
\* Number of renders and commands in one gdb session.
MaxRuns == 3
\* maxsize of functools.lru_cache in the model (128 in the program).
LruMaxsize == 2
\* Number of lookup calls in one gdb session.
MaxCalls == 4

\* src/experiments.py:8, src/blender_gdb.py:7
nullptr == 0

RECURSIVE Reverse(_)
\* Python's seq[::-1]
Reverse(s) == IF s = <<>> THEN <<>> ELSE Append(Reverse(Tail(s)), Head(s))

Range(s) == {s[i] : i \in 1..Len(s)}

NoRepeat(s) == \A i, j \in 1..Len(s) : s[i] = s[j] => i = j

\* Python's seq[1:]  (empty for an empty sequence, no error)
Slice1(s) == IF s = <<>> THEN <<>> ELSE Tail(s)

(***************************************************************************)
(* PART 1: linked-list walks.                                              *)
(*                                                                         *)
(* The inferior's memory holds NumNodes link records; link_next[a] and     *)
(* link_prev[a] are the `next` and `prev` fields of the record at address  *)
(* a.  Every pointer graph is a possible memory, a corrupted one included. *)
(*                                                                         *)
(* A gdb.Value is a Python object.  Reading a field (element[name])        *)
(* builds a new gdb.Value object each time.  gdb.Value defines __eq__ by    *)
(* the target value and __hash__ by the identity of the Python object, so  *)
(* a Value is modelled as [obj |-> identity, addr |-> pointer value].      *)
(***************************************************************************)
VARIABLES
    link_next,          \* Addr -> Addr : the `next` field of each node
    link_prev,          \* Addr -> Addr : the `prev` field of each node
    list_call,          \* the function being run, "none" before the call
    list_pc,            \* position in it
    pointer_name,       \* get_pointer_chain's pointer_name argument
    element,            \* get_pointer_chain's `element` / listbase_len's `link`
    elements,           \* get_pointer_chain's `elements` (list of Values)
    elements_set,       \* get_pointer_chain's `elements_set`
    previous_elements,  \* get_full_double_linked_list's previous_elements
    list_result,        \* the returned list of addresses
    count,              \* listbase_len's count
    iterations,         \* executions of a loop test in this call
    fresh               \* identity of the next gdb.Value object created

listVars == <<link_next, link_prev, list_call, list_pc, pointer_name, element,
              elements, elements_set, previous_elements, list_result, count,
              iterations, fresh>>

(***************************************************************************)
(* Variables of PART 2: the child generators of the struct printers.       *)
(***************************************************************************)
VARIABLES
    sp_file,        \* "experiments" or "blender_gdb": the script loaded
    sp_class,       \* "SimpleStructPrinter" or "GenericIDPrinter"
    sp_printer,     \* self.printer: the registered print_<struct> function
    sp_unreadable,  \* fields of self.value whose memory cannot be read
    sp_name_bytes,  \* what the name array holds: "ascii" or "invalid_utf8"
    sp_object_type, \* int(value["type"]) of an Object
    sp_links,       \* number of links of a ListBase
    sp_pos,         \* steps of the generator body already run
    sp_state,       \* "created", "suspended", "finished", "raised", "closed"
    sp_out,         \* the (key, value) pairs the consumer received
    sp_traceback,   \* tracebacks printed to stdout
    sp_failed       \* exceptions raised while producing a child

structVars == <<sp_file, sp_class, sp_printer, sp_unreadable, sp_name_bytes,
                sp_object_type, sp_links, sp_pos, sp_state, sp_out,
                sp_traceback, sp_failed>>

(***************************************************************************)
(* Variables of PART 3: the round-trip channel and dispatch.               *)
(***************************************************************************)
VARIABLES
    ch_file,        \* "experiments" or "blender_gdb": the script loaded
    char_signed,    \* whether the target's char is signed
    ch_pc,          \* "start", "value", "dispatched", "rendered"
    ch_payload,     \* the payload encoded, NoPayload for an inferior value
    ch_value,       \* the gdb.Value handed to dispatch
    ch_cut,         \* ch_value holds only the first bytes of an encoding
    ch_extract,     \* outcome of extract_dummy_value_printer(value)
    ch_printer,     \* what BlenderPrettyPrinter.__call__ returned
    ch_traceback,   \* tracebacks printed by __call__
    ch_text         \* outcome of the printer's to_string()

channelVars == <<ch_file, char_signed, ch_pc, ch_payload, ch_value, ch_cut,
                 ch_extract, ch_printer, ch_traceback, ch_text>>

(***************************************************************************)
(* Variables of PART 4: the global registry gdb.pretty_printers.           *)
(***************************************************************************)
VARIABLES
    pretty_printers,  \* gdb.pretty_printers: the registered printer objects
    registrations,    \* the scripts loaded so far, in order
    lk_value,         \* the value gdb printed last
    lk_consulted,     \* the registrations gdb called for it
    lk_result         \* the registration whose printer was used, 0 if none

registryVars == <<pretty_printers, registrations, lk_value, lk_consulted,
                  lk_result>>

(***************************************************************************)
(* Variables of PART 5: a container in the inferior and its printer.       *)
(***************************************************************************)
VARIABLES
    ct_kind,        \* which container the value is
    begin_,         \* Vector: pointers, in elements
    end_,
    capacity_end_,
    slots_,         \* Set, Map: the slot array
    occupied_and_removed_slots_,
    removed_slots_,
    ct_summary,     \* what to_string returned, NoSummary before the call
    ct_gen,         \* children(): "new", "suspended", "finished", "closed"
    ct_i,           \* children(): the loop variable i
    ct_value_next,  \* MapPrinter.children stands between its two yields
    ct_out          \* the (label, value) pairs children() has yielded

containerVars == <<ct_kind, begin_, end_, capacity_end_, slots_,
                   occupied_and_removed_slots_, removed_slots_, ct_summary,
                   ct_gen, ct_i, ct_value_next, ct_out>>
layoutVars == <<ct_kind, begin_, end_, capacity_end_, slots_,
                occupied_and_removed_slots_, removed_slots_>>

(***************************************************************************)
(* Variables of PART 6: the session's convenience variables.               *)
(***************************************************************************)
VARIABLES
    convenience,    \* [name -> BOOLEAN]: whether the variable is bound
    ev_op,          \* "VArrayPrinter.children" or "BlenderPrint.invoke"
    ev_pc,          \* "idle", "running", "suspended", "finished", "closed", "raised"
    ev_size,        \* impl["size_"]
    ev_i,           \* the loop variable i
    ev_yielded,     \* number of values yielded or printed by this run
    ev_runs         \* renders and commands started so far

evalVars == <<convenience, ev_op, ev_pc, ev_size, ev_i, ev_yielded, ev_runs>>

(***************************************************************************)
(* Variables of PART 7: the caches of lookup_type and lookup_enum_value.   *)
(***************************************************************************)
VARIABLES
    lookup_file,    \* "experiments" or "blender_gdb": the script loaded
    lru,            \* [function -> its cache entries, least recently used first]
    first_result,   \* [function -> the names that returned, with the result]
    last_call,      \* the last call: function, name, result, API queried
    last_first,     \* <<result>> the last call's name returned first, or <<>>
    lookup_calls    \* calls made in this session

cacheVars == <<lookup_file, lru, first_result, last_call, last_first,
               lookup_calls>>

(***************************************************************************)
(* Variables of PART 8: a linked-list renderer and its consumer.           *)
(***************************************************************************)
VARIABLES
    lz_renderer,    \* which renderer produces the children
    lz_n,           \* number of nodes of the list
    lz_any_link,    \* TypedListBase.any_link_address: a node of the list
    lz_want,        \* k: the number of children the consumer pulls
    lz_state,       \* "new", "suspended", "finished", "closed"
    lz_links,       \* the list the renderer built before its first yield
    lz_out,         \* the children yielded so far
    lz_reads        \* next/prev fields read so far

lazyVars == <<lz_renderer, lz_n, lz_any_link, lz_want, lz_state, lz_links,
              lz_out, lz_reads>>

vars == <<listVars, structVars, channelVars, registryVars, containerVars,
          evalVars, cacheVars, lazyVars>>

notList == <<structVars, channelVars, registryVars, containerVars, evalVars,
             cacheVars, lazyVars>>
notStruct == <<listVars, channelVars, registryVars, containerVars, evalVars,
               cacheVars, lazyVars>>
notChannel == <<listVars, structVars, registryVars, containerVars, evalVars,
                cacheVars, lazyVars>>
notRegistry == <<listVars, structVars, channelVars, containerVars, evalVars,
                 cacheVars, lazyVars>>
notContainer == <<listVars, structVars, channelVars, registryVars, evalVars,
                  cacheVars, lazyVars>>
notEval == <<listVars, structVars, channelVars, registryVars, containerVars,
             cacheVars, lazyVars>>
notCache == <<listVars, structVars, channelVars, registryVars, containerVars,
              evalVars, lazyVars>>
notLazy == <<listVars, structVars, channelVars, registryVars, containerVars,
             evalVars, cacheVars>>

Nodes == 1..NumNodes
Addr == 0..NumNodes

Value(o, a) == [obj |-> o, addr |-> a]

\* element[pointer_name]: dereference and read the field
ReadField(a, name) == IF name = "next" THEN link_next[a] ELSE link_prev[a]

\* hash(value) for a gdb.Value: the identity of the Python object
ValueHash(v) == v.obj

\* value == other for gdb.Value: comparison of the target values
ValueEq(v, w) == v.addr = w.addr

\* `element in elements_set`: Python's set lookup finds a member only when
\* the hashes agree and the objects are equal.
InSet(e, S) == \E v \in S : ValueHash(v) = ValueHash(e) /\ ValueEq(v, e)

Addresses(s) == [i \in 1..Len(s) |-> s[i].addr]

ListIdle ==
    /\ link_next = [a \in Nodes |-> nullptr]
    /\ link_prev = [a \in Nodes |-> nullptr]
    /\ list_call = "none"
    /\ list_pc = "idle"
    /\ pointer_name = "next"
    /\ element = Value(0, nullptr)
    /\ elements = <<>>
    /\ elements_set = {}
    /\ previous_elements = <<>>
    /\ list_result = <<>>
    /\ count = 0
    /\ iterations = 0
    /\ fresh = 1

ListInit ==
    /\ link_next \in [Nodes -> Addr]
    /\ link_prev \in [Nodes -> Addr]
    /\ list_call = "none"
    /\ list_pc = "idle"
    /\ pointer_name = "next"
    /\ element = Value(0, nullptr)
    /\ elements = <<>>
    /\ elements_set = {}
    /\ previous_elements = <<>>
    /\ list_result = <<>>
    /\ count = 0
    /\ iterations = 0
    /\ fresh = 1

\* get_pointer_chain(first, pointer_name): the statements before the loop
StartChain(first, name) ==
    /\ pointer_name' = name
    /\ element' = Value(0, first)
    /\ elements' = <<>>
    /\ elements_set' = {}

\* experiments.py get_full_double_linked_list(any_link): enters the prev walk
get_full_double_linked_list ==
    /\ list_call = "none"
    /\ \E any_link \in Addr : StartChain(any_link, "prev")
    /\ list_call' = "get_full_double_linked_list"
    /\ list_pc' = "prev_chain"
    /\ UNCHANGED <<link_next, link_prev, previous_elements, list_result, count,
                   iterations, fresh>>
    /\ UNCHANGED notList

\* experiments.py get_listbase_elements(listbase): the walk from `first`
get_listbase_elements ==
    /\ list_call = "none"
    /\ \E first \in Addr : StartChain(first, "next")
    /\ list_call' = "get_listbase_elements"
    /\ list_pc' = "next_chain"
    /\ UNCHANGED <<link_next, link_prev, previous_elements, list_result, count,
                   iterations, fresh>>
    /\ UNCHANGED notList

ChainStops == element.addr = nullptr \/ InSet(element, elements_set)

\* One iteration of get_pointer_chain's loop that appends an element.
get_pointer_chain_loop ==
    /\ list_pc \in {"prev_chain", "next_chain"}
    /\ ~ChainStops
    /\ Len(elements) < MaxChain
    /\ elements' = Append(elements, element)
    /\ elements_set' = elements_set \cup {element}
    /\ element' = Value(fresh, ReadField(element.addr, pointer_name))
    /\ fresh' = fresh + 1
    /\ iterations' = iterations + 1
    /\ UNCHANGED <<link_next, link_prev, list_call, list_pc, pointer_name,
                   previous_elements, list_result, count>>
    /\ UNCHANGED notList

\* The loop breaks and get_pointer_chain returns `elements`.
get_pointer_chain_return ==
    /\ list_pc \in {"prev_chain", "next_chain"}
    /\ ChainStops
    /\ iterations' = iterations + 1
    /\ IF list_pc = "prev_chain"
       THEN \* previous_elements = get_pointer_chain(any_link, "prev"); then
            \* the call get_pointer_chain(any_link, "next") starts
            /\ previous_elements' = elements
            \* any_link is elements[0] of the prev walk, or null when that
            \* walk appended nothing
            /\ StartChain(IF elements = <<>> THEN nullptr ELSE elements[1].addr,
                          "next")
            /\ list_pc' = "next_chain"
            /\ UNCHANGED <<list_result, fresh>>
       ELSE /\ list_result' =
                  IF list_call = "get_full_double_linked_list"
                  THEN Addresses(Reverse(previous_elements) \o Slice1(elements))
                  ELSE Addresses(elements)
            /\ list_pc' = "done"
            /\ UNCHANGED <<previous_elements, pointer_name, element, elements,
                           elements_set, fresh>>
    /\ UNCHANGED <<link_next, link_prev, list_call, count>>
    /\ UNCHANGED notList

\* blender_gdb.py listbase_len(listbase): the statements before the loop
listbase_len ==
    /\ list_call = "none"
    /\ \E first \in Addr : element' = Value(0, first)
    /\ list_call' = "listbase_len"
    /\ list_pc' = "len_loop"
    /\ count' = 0
    /\ UNCHANGED <<link_next, link_prev, pointer_name, elements, elements_set,
                   previous_elements, list_result, iterations, fresh>>
    /\ UNCHANGED notList

\* while link != nullptr: count += 1; link = link["next"]
listbase_len_loop ==
    /\ list_pc = "len_loop"
    /\ element.addr # nullptr
    /\ count < MaxChain
    /\ count' = count + 1
    /\ element' = Value(fresh, link_next[element.addr])
    /\ fresh' = fresh + 1
    /\ iterations' = iterations + 1
    /\ UNCHANGED <<link_next, link_prev, list_call, list_pc, pointer_name,
                   elements, elements_set, previous_elements, list_result>>
    /\ UNCHANGED notList

\* the loop test fails: return count
listbase_len_return ==
    /\ list_pc = "len_loop"
    /\ element.addr = nullptr
    /\ list_pc' = "done"
    /\ iterations' = iterations + 1
    /\ UNCHANGED <<link_next, link_prev, list_call, pointer_name, element,
                   elements, elements_set, previous_elements, list_result,
                   count, fresh>>
    /\ UNCHANGED notList

ListNext ==
    \/ get_full_double_linked_list
    \/ get_listbase_elements
    \/ get_pointer_chain_loop
    \/ get_pointer_chain_return
    \/ listbase_len
    \/ listbase_len_loop
    \/ listbase_len_return

(***************************************************************************)
(* PART 2: SimpleStructPrinter.children and GenericIDPrinter.children.     *)
(*                                                                         *)
(* A generator body is modelled by its plan: the sequence of steps it      *)
(* takes when it is pulled to the end, each step a yielded (key, value)    *)
(* pair or an exception raised between two yields.  One pull of the        *)
(* consumer runs one step.                                                 *)
(***************************************************************************)
Item(k, v) == [step |-> "yield", key |-> k, value |-> v]
Raise(e) == [step |-> "raise", key |-> e, value |-> e]

\* The declared fields (value.type.fields()) of the structs the printers read.
Fields(struct) ==
    CASE struct = "ID" -> <<"name">>
      [] struct = "Object" -> <<"id", "type", "data">>
      [] struct = "wmOperator" -> <<"idname">>
      [] struct = "ListBase" -> <<"first">>
      [] struct = "ModifierData" -> <<"name">>
      [] struct = "bConstraint" -> <<"name">>
      [] struct = "Link" -> <<"next", "prev">>
      [] OTHER -> <<"id">>

\* registered_struct_printers: the functions decorated with @struct_printer
registered_struct_printers(file) ==
    IF file = "experiments"
    THEN {"ID", "Object", "wmOperator", "ListBase", "ModifierData", "bConstraint"}
    ELSE {"ID", "Object", "wmOperator", "ListBase"}

\* string_from_array(value): the text of a char array, "" when its memory
\* cannot be read; a byte sequence that is no UTF-8 decodes to a marker in
\* experiments.py and raises in blender_gdb.py.
string_from_array(file, readable, bytes) ==
    IF ~readable THEN Item("text", "")
    ELSE IF bytes = "ascii" THEN Item("text", "name")
    ELSE IF file = "experiments" THEN Item("text", "<utf8 decode error>")
    ELSE Raise("UnicodeDecodeError")

Keyed(k, step) == IF step.step = "yield" THEN Item(k, step.value) ELSE step

\* print_ID(value): yield "Name", string_from_array(value["name"])
print_ID(file, readable, bytes) ==
    <<Keyed("Name", string_from_array(file, readable, bytes))>>

\* object_types
object_types == <<"Mesh", "Light", "Camera">>

\* print_Object(value)
print_Object(file, unreadable, bytes, object_type) ==
    print_ID(file, "id" \notin unreadable, bytes)
    \o (IF "type" \in unreadable
        THEN <<Raise("MemoryError")>>
        ELSE IF object_type \in 1..Len(object_types)
        THEN <<Item(object_types[object_type], "cast data")>>
        ELSE <<Item("Data", "data")>>)

\* print_wmOperator(value)
print_wmOperator(file, unreadable, bytes) ==
    <<Keyed("Idname", string_from_array(file, "idname" \notin unreadable, bytes))>>

\* print_ListBase: experiments.py catches the memory error of the walk and
\* yields a marker; blender_gdb.py yields listbase_len(value) unguarded.
print_ListBase(file, unreadable, links) ==
    IF file = "experiments"
    THEN IF "first" \in unreadable
         THEN <<Item("Length", "<memory error>")>>
         ELSE <<Item("Length", links)>> \o [i \in 1..links |-> Item(i - 1, "link")]
    ELSE IF "first" \in unreadable
         THEN <<Raise("MemoryError")>>
         ELSE <<Item("Length", links)>>

\* print_ModifierData / print_bConstraint
print_Name(file, unreadable, bytes) ==
    <<Keyed("Name", string_from_array(file, "name" \notin unreadable, bytes))>>

\* self.printer(self.value)
PrinterSteps(file, printer, unreadable, bytes, object_type, links) ==
    CASE printer = "ID" -> print_ID(file, "name" \notin unreadable, bytes)
      [] printer = "Object" -> print_Object(file, unreadable, bytes, object_type)
      [] printer = "wmOperator" -> print_wmOperator(file, unreadable, bytes)
      [] printer = "ListBase" -> print_ListBase(file, unreadable, links)
      [] OTHER -> print_Name(file, unreadable, bytes)

\* make_debug_item(key, value): the key in brackets; a str value becomes a
\* value of the round-trip channel
make_debug_item(step) ==
    IF step.step = "yield"
    THEN Item(<<"[", step.key, "]">>, step.value)
    ELSE step

\* make_address_item(value)
make_address_item == Item(<<"[", "Address", "]">>, "hex address")

\* make_raw_field_items(value): yield field.name, value[field.name]
make_raw_field_items(struct) ==
    [i \in 1..Len(Fields(struct)) |-> Item(Fields(struct)[i], "raw field")]

\* The struct whose value the printer object holds.
StructOf(class, printer) == IF class = "GenericIDPrinter" THEN "Mesh" ELSE printer

\* The body of children(): the address item, the printer's items, the raw
\* fields.
ChildrenBody(file, class, printer, unreadable, bytes, object_type, links) ==
    <<make_address_item>>
    \o (LET steps == IF class = "GenericIDPrinter"
                     THEN print_ID(file, "id" \notin unreadable, bytes)
                     ELSE PrinterSteps(file, printer, unreadable, bytes,
                                       object_type, links)
        IN [i \in 1..Len(steps) |-> make_debug_item(steps[i])])
    \o make_raw_field_items(StructOf(class, printer))

\* Whether children() wraps its body in try/except Exception:
\* both classes in experiments.py, only GenericIDPrinter in blender_gdb.py.
HasTryExcept(file, class) == file = "experiments" \/ class = "GenericIDPrinter"

sp_plan == ChildrenBody(sp_file, sp_class, sp_printer, sp_unreadable,
                        sp_name_bytes, sp_object_type, sp_links)

StructIdle ==
    /\ sp_file = "experiments"
    /\ sp_class = "SimpleStructPrinter"
    /\ sp_printer = "ID"
    /\ sp_unreadable = {}
    /\ sp_name_bytes = "ascii"
    /\ sp_object_type = 0
    /\ sp_links = 0
    /\ sp_pos = 0
    /\ sp_state = "created"
    /\ sp_out = <<>>
    /\ sp_traceback = 0
    /\ sp_failed = {}

\* A printer object as lookup_printer builds it, over any memory.
StructInit ==
    /\ sp_file \in {"experiments", "blender_gdb"}
    /\ sp_class \in {"SimpleStructPrinter", "GenericIDPrinter"}
    /\ sp_printer \in registered_struct_printers(sp_file)
    /\ sp_class = "GenericIDPrinter" => sp_printer = "ID"
    /\ sp_unreadable \in SUBSET {Fields(StructOf(sp_class, sp_printer))[i] :
                                   i \in 1..Len(Fields(StructOf(sp_class, sp_printer)))}
    /\ sp_name_bytes \in {"ascii", "invalid_utf8"}
    /\ sp_object_type \in 0..Len(object_types)
    /\ sp_object_type # 0 => sp_printer = "Object"
    /\ sp_links \in 0..MaxLinks
    /\ sp_links # 0 => sp_printer = "ListBase"
    /\ sp_pos = 0
    /\ sp_state = "created"
    /\ sp_out = <<>>
    /\ sp_traceback = 0
    /\ sp_failed = {}

\* The consumer pulls one child: the body runs to its next yield.
children_yield ==
    /\ sp_state \in {"created", "suspended"}
    /\ sp_pos < Len(sp_plan)
    /\ sp_plan[sp_pos + 1].step = "yield"
    /\ sp_out' = Append(sp_out, <<sp_plan[sp_pos + 1].key, sp_plan[sp_pos + 1].value>>)
    /\ sp_pos' = sp_pos + 1
    /\ sp_state' = "suspended"
    /\ UNCHANGED <<sp_file, sp_class, sp_printer, sp_unreadable, sp_name_bytes,
                   sp_object_type, sp_links, sp_traceback, sp_failed>>
    /\ UNCHANGED notStruct

\* The consumer pulls and the body raises before its next yield: with the
\* try/except the traceback is printed and the generator returns; without
\* it the exception leaves the generator.
children_raise ==
    /\ sp_state \in {"created", "suspended"}
    /\ sp_pos < Len(sp_plan)
    /\ sp_plan[sp_pos + 1].step = "raise"
    /\ sp_failed' = sp_failed \cup {sp_plan[sp_pos + 1].key}
    /\ sp_pos' = sp_pos + 1
    /\ IF HasTryExcept(sp_file, sp_class)
       THEN sp_traceback' = sp_traceback + 1 /\ sp_state' = "finished"
       ELSE sp_traceback' = sp_traceback /\ sp_state' = "raised"
    /\ UNCHANGED <<sp_file, sp_class, sp_printer, sp_unreadable, sp_name_bytes,
                   sp_object_type, sp_links, sp_out>>
    /\ UNCHANGED notStruct

\* The consumer pulls and the body runs off its end: StopIteration.
children_return ==
    /\ sp_state \in {"created", "suspended"}
    /\ sp_pos = Len(sp_plan)
    /\ sp_state' = "finished"
    /\ UNCHANGED <<sp_file, sp_class, sp_printer, sp_unreadable, sp_name_bytes,
                   sp_object_type, sp_links, sp_pos, sp_out, sp_traceback,
                   sp_failed>>
    /\ UNCHANGED notStruct

\* The consumer stops pulling: GeneratorExit is raised at the yield, is no
\* Exception and leaves the generator.
children_close ==
    /\ sp_state = "suspended"
    /\ sp_state' = "closed"
    /\ UNCHANGED <<sp_file, sp_class, sp_printer, sp_unreadable, sp_name_bytes,
                   sp_object_type, sp_links, sp_pos, sp_out, sp_traceback,
                   sp_failed>>
    /\ UNCHANGED notStruct

StructNext ==
    \/ children_yield
    \/ children_raise
    \/ children_return
    \/ children_close

(***************************************************************************)
(* PART 3: the round-trip channel and dispatch.                            *)
(*                                                                         *)
(* A text is a sequence of code points, a byte array a sequence of bytes.  *)
(* gdb.Value(str) is the char array of the string's bytes in the target    *)
(* charset (UTF-8).  int(value[i]) reads a target `char`, which is signed  *)
(* or unsigned depending on the target ABI (char_signed).                  *)
(***************************************************************************)
\* src/experiments.py:30  dummy_type_prefix = "=*?="
dummy_type_prefix == <<61, 42, 63, 61>>
\* src/blender_gdb.py:26  display_string_prefix = "#?*="
display_string_prefix == <<35, 63, 42, 61>>

Quote == 39
DoubleQuote == 34
Backslash == 92
CloseParen == 41

\* The code points texts are made of: z ' " \ and e-acute (not ASCII).
TextAlphabet == {122, Quote, DoubleQuote, Backslash, 233}

RECURSIVE TextsUpTo(_)
TextsUpTo(n) ==
    IF n = 0 THEN {<<>>}
    ELSE TextsUpTo(n - 1)
         \cup {Append(t, c) : t \in {u \in TextsUpTo(n - 1) : Len(u) = n - 1},
                              c \in TextAlphabet}
Texts == TextsUpTo(MaxTextLen)

RECURSIVE Flatten(_)
Flatten(ss) == IF ss = <<>> THEN <<>> ELSE Head(ss) \o Flatten(Tail(ss))

StartsWith(s, p) == Len(s) >= Len(p) /\ SubSeq(s, 1, Len(p)) = p
Drop(s, n) == SubSeq(s, n + 1, Len(s))

\* str.encode("utf8") of one code point below 0x800
Utf8Char(c) == IF c < 128 THEN <<c>> ELSE <<192 + (c \div 64), 128 + (c % 64)>>
Utf8Encode(text) == Flatten([i \in 1..Len(text) |-> Utf8Char(text[i])])

\* bytes.decode("utf8"): ok = FALSE is UnicodeDecodeError.  A byte is a
\* character of its own, the lead byte of a two-byte character followed by
\* its continuation byte, or that continuation byte.
Utf8Decode(b) ==
    LET n == Len(b)
        Ascii(i) == b[i] < 128
        Lead(i) == b[i] >= 194 /\ b[i] <= 223
        Cont(i) == b[i] >= 128 /\ b[i] <= 191
        Starts == {i \in 1..n : ~Cont(i)}
        Start(k) == CHOOSE i \in Starts :
                        Cardinality({j \in Starts : j <= i}) = k
        Char(i) == IF Ascii(i) THEN b[i]
                   ELSE (b[i] - 192) * 64 + (b[i + 1] - 128)
        ok == \A i \in 1..n :
                  \/ Ascii(i)
                  \/ Lead(i) /\ i < n /\ Cont(i + 1)
                  \/ Cont(i) /\ i > 1 /\ Lead(i - 1)
    IN IF ok
       THEN [ok |-> TRUE, text |-> [k \in 1..Cardinality(Starts) |-> Char(Start(k))]]
       ELSE [ok |-> FALSE, text |-> <<>>]

\* repr(str): single quotes unless the text holds a single and no double
\* quote; backslash and the chosen quote are escaped.
ReprQuote(text) ==
    IF Quote \in Range(text) /\ DoubleQuote \notin Range(text)
    THEN DoubleQuote ELSE Quote
ReprStr(text) ==
    LET q == ReprQuote(text)
        esc(c) == IF c = Backslash THEN <<Backslash, Backslash>>
                  ELSE IF c = q THEN <<Backslash, q>>
                  ELSE <<c>>
    IN <<q>> \o Flatten([i \in 1..Len(text) |-> esc(text[i])]) \o <<q>>

RECURSIVE ReprInt(_)
\* repr(int) of a non-negative int: its decimal digits
ReprInt(n) == IF n < 10 THEN <<48 + n>> ELSE ReprInt(n \div 10) \o <<48 + (n % 10)>>

JustTextOpen == <<74, 117, 115, 116, 84, 101, 120, 116, 40, 116, 101, 120, 116, 61>>
TypedListBaseOpen ==
    <<84, 121, 112, 101, 100, 76, 105, 115, 116, 66, 97, 115, 101, 40, 97, 110,
      121, 95, 108, 105, 110, 107, 95, 97, 100, 100, 114, 101, 115, 115, 61>>
DataTypeSep == <<44, 32, 100, 97, 116, 97, 95, 116, 121, 112, 101, 61>>
JustTextName == <<74, 117, 115, 116, 84, 101, 120, 116>>
TypedListBaseName == <<84, 121, 112, 101, 100, 76, 105, 115, 116, 66, 97, 115, 101>>

\* a Python str handed to make_display_string
Str(text) == [cls |-> "str", text |-> text]
JustText(text) == [cls |-> "JustText", text |-> text]
TypedListBase(address, data_type) ==
    [cls |-> "TypedListBase", any_link_address |-> address, data_type |-> data_type]

\* repr(value) of a dataclass instance
Repr(p) ==
    IF p.cls = "JustText"
    THEN JustTextOpen \o ReprStr(p.text) \o <<CloseParen>>
    ELSE TypedListBaseOpen \o ReprInt(p.any_link_address) \o DataTypeSep
         \o ReprStr(p.data_type) \o <<CloseParen>>

ParseFail == [ok |-> FALSE, val |-> <<>>, rest |-> <<>>]

RECURSIVE ParseStrBody(_, _, _)
\* The body of a string literal opened with quote q, up to its closing quote.
ParseStrBody(s, q, acc) ==
    IF s = <<>> THEN ParseFail
    ELSE IF s[1] = q THEN [ok |-> TRUE, val |-> acc, rest |-> Tail(s)]
    ELSE IF s[1] = Backslash
    THEN IF Len(s) < 2 THEN ParseFail
         ELSE IF s[2] \in {Backslash, Quote, DoubleQuote}
         THEN ParseStrBody(Drop(s, 2), q, Append(acc, s[2]))
         ELSE ParseStrBody(Drop(s, 2), q, acc \o <<Backslash, s[2]>>)
    ELSE ParseStrBody(Tail(s), q, Append(acc, s[1]))

\* A string literal at the head of s.
ParseStr(s) ==
    IF s # <<>> /\ s[1] \in {Quote, DoubleQuote}
    THEN ParseStrBody(Tail(s), s[1], <<>>)
    ELSE ParseFail

RECURSIVE ParseDigits(_, _)
ParseDigits(s, acc) ==
    IF s # <<>> /\ s[1] >= 48 /\ s[1] <= 57
    THEN ParseDigits(Tail(s), acc * 10 + (s[1] - 48))
    ELSE [ok |-> TRUE, val |-> acc, rest |-> s]

\* A decimal literal at the head of s (no leading zero before another digit).
ParseInt(s) ==
    IF s = <<>> \/ s[1] < 48 \/ s[1] > 57 THEN ParseFail
    ELSE IF s[1] = 48 /\ Len(s) >= 2 /\ s[2] >= 48 /\ s[2] <= 57 THEN ParseFail
    ELSE ParseDigits(s, 0)

\* eval(value_str) in the module's globals, for the texts the model builds:
\* a dataclass repr evaluates to an equal instance, a bare class name to the
\* class, and every other text of the model (a cut repr) raises.
Eval(s) ==
    IF s = JustTextName \/ s = TypedListBaseName
    THEN [ok |-> TRUE, val |-> [cls |-> "type", text |-> s]]
    ELSE IF StartsWith(s, JustTextOpen)
    THEN LET r == ParseStr(Drop(s, Len(JustTextOpen)))
         IN IF r.ok /\ r.rest = <<CloseParen>>
            THEN [ok |-> TRUE, val |-> JustText(r.val)]
            ELSE [ok |-> FALSE, val |-> <<>>]
    ELSE IF StartsWith(s, TypedListBaseOpen)
    THEN LET a == ParseInt(Drop(s, Len(TypedListBaseOpen)))
         IN IF a.ok /\ StartsWith(a.rest, DataTypeSep)
            THEN LET r == ParseStr(Drop(a.rest, Len(DataTypeSep)))
                 IN IF r.ok /\ r.rest = <<CloseParen>>
                    THEN [ok |-> TRUE, val |-> TypedListBase(a.val, r.val)]
                    ELSE [ok |-> FALSE, val |-> <<>>]
            ELSE [ok |-> FALSE, val |-> <<>>]
    ELSE [ok |-> FALSE, val |-> <<>>]

\* A gdb.Value as dispatch sees it: its type's code, name, sizeof, the sizeof
\* of the target type, the bytes of an array, whether its memory can be read,
\* whether a pointer is null, and the struct its fields() are those of (the
\* struct itself, the struct a typedef names, the target of a pointer).
GdbValue(code, name, tsize, bytes, readable, null, struct) ==
    [code |-> code, name |-> name, sizeof |-> Len(bytes) * tsize, tsize |-> tsize,
     bytes |-> bytes, readable |-> readable, null |-> null, struct |-> struct]

\* gdb.Value(str): a char array of the string's bytes
ValueOfStr(text) == GdbValue("ARRAY", "None", 1, Utf8Encode(text), TRUE, FALSE, "None")

\* experiments.py make_dummy_value_printer(value)
make_dummy_value_printer(p) == ValueOfStr(dummy_type_prefix \o Repr(p))

\* blender_gdb.py make_display_string(text)
make_display_string(text) == ValueOfStr(display_string_prefix \o text)

\* int(value[i]): the i-th target char as a Python int
CharAsInt(b, signed) == IF signed /\ b >= 128 THEN b - 256 ELSE b

\* [int(value[i]) for i in range(len(prefix), value.type.sizeof)]
StrBytes(value, prefix, signed) ==
    [i \in 1..(Len(value.bytes) - Len(prefix)) |->
        CharAsInt(value.bytes[Len(prefix) + i], signed)]

\* bytes(str_bytes) raises ValueError unless every int is in range(0, 256)
BytesOk(ints) == \A i \in 1..Len(ints) : ints[i] >= 0 /\ ints[i] <= 255

\* the loop comparing ord(prefix[i]) with value[i]
PrefixMatches(value, prefix, signed) ==
    \A i \in 1..Len(prefix) : prefix[i] = CharAsInt(value.bytes[i], signed)

None == [kind |-> "None", val |-> <<>>]
Raised(exc) == [kind |-> "raise", val |-> exc]
Returned(v) == [kind |-> "value", val |-> v]

\* The except clause of eval: print_traceback() is called without the
\* argument its definition requires, which raises TypeError in the handler.
EvalHandler == Raised("TypeError")

\* experiments.py extract_dummy_value_printer(value)
extract_dummy_value_printer(value, signed) ==
    IF value.code # "ARRAY" THEN None
    ELSE IF value.sizeof < Len(dummy_type_prefix) THEN None
    ELSE IF value.tsize # 1 THEN None
    ELSE IF ~value.readable THEN None
    ELSE IF ~PrefixMatches(value, dummy_type_prefix, signed) THEN None
    ELSE LET str_bytes == StrBytes(value, dummy_type_prefix, signed)
         IN IF ~BytesOk(str_bytes) THEN Raised("ValueError")
            ELSE LET value_str == Utf8Decode(str_bytes)
                 IN IF ~value_str.ok THEN None
                    ELSE LET dummy_value == Eval(value_str.text)
                         IN IF ~dummy_value.ok THEN EvalHandler
                            ELSE Returned(dummy_value.val)

\* blender_gdb.py is_display_string(value)
is_display_string(value, signed) ==
    /\ value.code = "ARRAY"
    /\ value.sizeof >= Len(display_string_prefix)
    /\ value.tsize = 1
    /\ value.readable
    /\ PrefixMatches(value, display_string_prefix, signed)

\* blender_gdb.py extract_display_string(value)
extract_display_string(value, signed) ==
    LET str_bytes == StrBytes(value, display_string_prefix, signed)
    IN IF ~is_display_string(value, signed) THEN Raised("AssertionError")
       ELSE IF ~BytesOk(str_bytes) THEN Raised("ValueError")
       ELSE LET text == Utf8Decode(str_bytes)
            IN IF ~text.ok THEN Raised("UnicodeDecodeError")
               ELSE Returned(text.text)

\* fields[0].type.name of the structs of the model
FirstFieldType(struct) ==
    CASE struct \in {"Object", "Mesh"} -> "ID"
      [] struct = "Other" -> "int"
      [] OTHER -> "None"

\* len(fields) >= 1 and fields[0].name == "id" and fields[0].type.name == "ID"
\* (fields() of a type that has none raises, and fields is [])
FirstFieldIsID(struct) ==
    /\ struct # "None"
    /\ Fields(struct)[1] = "id"
    /\ FirstFieldType(struct) = "ID"

Printer(class, arg) == Returned([cls |-> class, text |-> arg])

\* experiments.py BlenderPrettyPrinter.lookup_printer(value)
lookup_printer_experiments(value, signed) ==
    LET registered == registered_struct_printers("experiments")
        dummy_value_printer == extract_dummy_value_printer(value, signed)
    IN IF value.code = "NONE" THEN None
       ELSE IF value.code = "PTR" THEN None
       ELSE IF dummy_value_printer.kind # "None" THEN dummy_value_printer
       ELSE IF value.code = "TYPEDEF" /\ value.name # "None"
               /\ value.name \in registered
       THEN Printer("SimpleStructPrinter", value.name)
       ELSE IF value.code = "TYPEDEF" /\ value.name # "None"
               /\ FirstFieldIsID(value.struct)
       THEN Printer("GenericIDPrinter", value.name)
       ELSE IF value.name \in registered
       THEN Printer("SimpleStructPrinter", value.name)
       ELSE None

\* blender_gdb.py BlenderPrettyPrinter.lookup_printer(value)
lookup_printer_blender_gdb(value, signed) ==
    LET registered == registered_struct_printers("blender_gdb")
    IN IF value.code = "NONE" THEN None
       ELSE IF value.code = "PTR" /\ value.null THEN None
       ELSE IF is_display_string(value, signed)
       THEN Printer("DisplayStringPrinter", "None")
       ELSE IF value.code = "PTR" /\ value.struct # "None"
               /\ value.struct \in registered
       THEN Printer("SimpleStructPrinter", value.struct)
       ELSE IF value.code = "PTR" /\ value.struct # "None"
               /\ FirstFieldIsID(value.struct)
       THEN Printer("GenericIDPrinter", value.struct)
       ELSE IF value.name \in registered
       THEN Printer("SimpleStructPrinter", value.name)
       ELSE None

lookup_printer(file, value, signed) ==
    IF file = "experiments"
    THEN lookup_printer_experiments(value, signed)
    ELSE lookup_printer_blender_gdb(value, signed)

\* The struct names of the model: the registered ones, Mesh (first field
\* id: ID, no printer), Link (first field next), Other (first field id: int).
StructNames == registered_struct_printers("experiments") \cup {"Mesh", "Link", "Other"}

\* Values read from the inferior.
InferiorValues ==
    {GdbValue("STRUCT", s, 8, <<>>, TRUE, FALSE, s) : s \in StructNames}
    \cup {GdbValue("TYPEDEF", s, 8, <<>>, TRUE, FALSE, s) : s \in StructNames}
    \cup {GdbValue("PTR", "None", 8, <<>>, TRUE, n, s) :
            n \in BOOLEAN, s \in StructNames \cup {"None"}}
    \cup {GdbValue("TYPEDEF", "uint", 4, <<>>, TRUE, FALSE, "None"),
          GdbValue("INT", "int", 4, <<>>, TRUE, FALSE, "None"),
          GdbValue("NONE", "None", 1, <<>>, TRUE, FALSE, "None"),
          GdbValue("ARRAY", "None", 4, <<61, 42, 63, 61>>, TRUE, FALSE, "None"),
          GdbValue("ARRAY", "None", 1, <<122, 122>>, TRUE, FALSE, "None"),
          GdbValue("ARRAY", "None", 1, <<122, 122, 122, 122, 0>>, TRUE, FALSE, "None"),
          GdbValue("ARRAY", "None", 1, dummy_type_prefix \o <<122>>, FALSE, FALSE, "None"),
          GdbValue("ARRAY", "None", 1, display_string_prefix \o <<122>>, FALSE, FALSE, "None")}

Addresses3 == {0, 7, 12}
Payloads(file) ==
    IF file = "experiments"
    THEN {JustText(t) : t \in Texts}
         \cup {TypedListBase(a, t) : a \in Addresses3, t \in TextsUpTo(1)}
    ELSE {Str(t) : t \in Texts}

NoPayload == [cls |-> "None"]

ChannelIdle ==
    /\ ch_file = "experiments"
    /\ char_signed = TRUE
    /\ ch_pc = "start"
    /\ ch_payload = NoPayload
    /\ ch_value = GdbValue("NONE", "None", 1, <<>>, TRUE, FALSE, "None")
    /\ ch_cut = FALSE
    /\ ch_extract = None
    /\ ch_printer = None
    /\ ch_traceback = 0
    /\ ch_text = None

ChannelInit ==
    /\ ch_file \in {"experiments", "blender_gdb"}
    /\ char_signed \in BOOLEAN
    /\ ch_pc = "start"
    /\ ch_payload = NoPayload
    /\ ch_value = GdbValue("NONE", "None", 1, <<>>, TRUE, FALSE, "None")
    /\ ch_cut = FALSE
    /\ ch_extract = None
    /\ ch_printer = None
    /\ ch_traceback = 0
    /\ ch_text = None

\* A renderer encodes a payload: make_debug_item with a str or a DummyValue.
encode ==
    /\ ch_pc = "start"
    /\ \E p \in Payloads(ch_file) :
          /\ ch_payload' = p
          /\ ch_value' = IF ch_file = "experiments"
                         THEN make_dummy_value_printer(p)
                         ELSE make_display_string(p.text)
    /\ ch_pc' = "value"
    /\ UNCHANGED <<ch_file, char_signed, ch_cut, ch_extract, ch_printer,
                   ch_traceback, ch_text>>
    /\ UNCHANGED notChannel

\* A value of the inferior reaches dispatch.
inferior_value ==
    /\ ch_pc = "start"
    /\ \E v \in InferiorValues : ch_value' = v
    /\ ch_pc' = "value"
    /\ UNCHANGED <<ch_file, char_signed, ch_payload, ch_cut, ch_extract,
                   ch_printer, ch_traceback, ch_text>>
    /\ UNCHANGED notChannel

\* A char array of the inferior that holds the sentinel and only the first
\* bytes of an encoding.
inferior_cut_array ==
    /\ ch_pc = "value"
    /\ ch_payload # NoPayload
    /\ ~ch_cut
    /\ \E n \in Len(dummy_type_prefix)..(Len(ch_value.bytes) - 1) :
          ch_value' = GdbValue("ARRAY", "None", 1, SubSeq(ch_value.bytes, 1, n),
                               TRUE, FALSE, "None")
    /\ ch_cut' = TRUE
    /\ UNCHANGED <<ch_file, char_signed, ch_pc, ch_payload, ch_extract,
                   ch_printer, ch_traceback, ch_text>>
    /\ UNCHANGED notChannel

\* BlenderPrettyPrinter.__call__(value): lookup_printer, and on any
\* exception the traceback is printed and None returned.
BlenderPrettyPrinter_call ==
    /\ ch_pc = "value"
    /\ LET r == lookup_printer(ch_file, ch_value, char_signed)
       IN /\ ch_printer' = IF r.kind = "raise" THEN None ELSE r
          /\ ch_traceback' = IF r.kind = "raise" THEN ch_traceback + 1
                             ELSE ch_traceback
    /\ ch_extract' = IF ch_file = "experiments" /\ ch_value.code \notin {"NONE", "PTR"}
                     THEN extract_dummy_value_printer(ch_value, char_signed)
                     ELSE ch_extract
    /\ ch_pc' = "dispatched"
    /\ UNCHANGED <<ch_file, char_signed, ch_payload, ch_value, ch_cut, ch_text>>
    /\ UNCHANGED notChannel

\* gdb asks the printer for its text: JustText.to_string returns self.text,
\* DisplayStringPrinter.to_string returns extract_display_string(self.value).
to_string ==
    /\ ch_pc = "dispatched"
    /\ ch_printer.kind = "value"
    /\ ch_printer.val.cls \in {"JustText", "DisplayStringPrinter"}
    /\ ch_text' = IF ch_printer.val.cls = "JustText"
                  THEN Returned(ch_printer.val.text)
                  ELSE extract_display_string(ch_value, char_signed)
    /\ ch_pc' = "rendered"
    /\ UNCHANGED <<ch_file, char_signed, ch_payload, ch_value, ch_cut,
                   ch_extract, ch_printer, ch_traceback>>
    /\ UNCHANGED notChannel

ChannelNext ==
    \/ encode
    \/ inferior_value
    \/ inferior_cut_array
    \/ BlenderPrettyPrinter_call
    \/ to_string

(***************************************************************************)
(* PART 4: the global registry.                                            *)
(*                                                                         *)
(* Each script ends with                                                   *)
(*   gdb.printing.register_pretty_printer(None, <printer>, replace=True)   *)
(* which, in gdb.pretty_printers, deletes the entry whose name equals the  *)
(* new printer's name, if there is one, and inserts the new printer at the *)
(* front.  To print a value gdb calls the entries in list order and takes  *)
(* the first result that is not None.                                      *)
(***************************************************************************)
Scripts == {"experiments", "blender_gdb", "command_test"}

\* The name each printer passes to PrettyPrinter.__init__.
PrinterName(script) ==
    IF script = "command_test" THEN "blender-printers" ELSE "blender_printer"

\* The template heads command_test.py matches with startswith, and the
\* printer class each one gets.
TemplateHeads ==
    {"blender::Vector<", "blender::Set<", "blender::Map<",
     "blender::MultiValueMap<", "blender::TypedBuffer<", "blender::Array<",
     "blender::VectorSet<", "blender::VArray<", "blender::VMutableArray<",
     "blender::vec_struct_base<", "blender::Span<", "blender::MutableSpan<"}

PrinterClassOf(head) ==
    CASE head = "blender::Vector<" -> "VectorPrinter"
      [] head = "blender::Set<" -> "SetPrinter"
      [] head \in {"blender::Map<", "blender::MultiValueMap<"} -> "MapPrinter"
      [] head = "blender::TypedBuffer<" -> "TypedBufferPrinter"
      [] head = "blender::Array<" -> "ArrayPrinter"
      [] head = "blender::VectorSet<" -> "VectorSetPrinter"
      [] head \in {"blender::VArray<", "blender::VMutableArray<"} -> "VArrayPrinter"
      [] head = "blender::vec_struct_base<" -> "MathVectorPrinter"
      [] OTHER -> "SpanPrinter"

\* command_test.py BlenderPrettyPrinters.__call__(value); value.struct is
\* the head of value.type.strip_typedefs().name
BlenderPrettyPrinters_call(value) ==
    IF value.code = "NONE" THEN None
    ELSE IF value.code = "PTR" THEN None
    ELSE IF value.struct = "None" THEN None
    ELSE IF value.struct \in TemplateHeads
    THEN Printer(PrinterClassOf(value.struct), value.struct)
    ELSE None

\* printer(value) for the printer object a script registers; an exception
\* in lookup_printer is caught by __call__, which returns None.
CallPrinter(script, value) ==
    IF script = "command_test" THEN BlenderPrettyPrinters_call(value)
    ELSE LET r == lookup_printer(script, value, char_signed)
         IN IF r.kind = "raise" THEN None ELSE r

\* Values gdb is asked to print.
RegistryValues ==
    {GdbValue("TYPEDEF", s, 8, <<>>, TRUE, FALSE, s) :
        s \in {"Object", "bConstraint", "Mesh", "Link"}}
    \cup {GdbValue("STRUCT", h, 8, <<>>, TRUE, FALSE, h) :
            h \in {"blender::Vector<", "blender::Map<", "blender::Span<"}}
    \cup {GdbValue("PTR", "None", 8, <<>>, TRUE, FALSE, "Object"),
          GdbValue("INT", "int", 4, <<>>, TRUE, FALSE, "None")}

RegistryIdle ==
    /\ pretty_printers = <<>>
    /\ registrations = <<>>
    /\ lk_value = GdbValue("NONE", "None", 1, <<>>, TRUE, FALSE, "None")
    /\ lk_consulted = {}
    /\ lk_result = 0

\* gdb starts with no printer of these scripts registered.
RegistryInit == RegistryIdle

Entry(script, id) == [name |-> PrinterName(script), script |-> script, id |-> id]

\* pretty_printers without the entry named `name` (at most one is deleted:
\* the loop breaks after the first)
RECURSIVE DeleteNamed(_, _)
DeleteNamed(list, name) ==
    IF list = <<>> THEN <<>>
    ELSE IF Head(list).name = name THEN Tail(list)
    ELSE <<Head(list)>> \o DeleteNamed(Tail(list), name)

\* register_pretty_printer(None, printer, replace=True)
RegisterKeepingOld(list, entry) == <<entry>> \o list
register_pretty_printer(list, entry) == <<entry>> \o DeleteNamed(list, entry.name)

\* `source <script>`: the script's last statement registers its printer.
source_script ==
    /\ Len(registrations) < MaxLoads
    /\ \E script \in Scripts :
          /\ pretty_printers' = register_pretty_printer(
                                   pretty_printers,
                                   Entry(script, Len(registrations) + 1))
          /\ registrations' = Append(registrations, script)
    /\ UNCHANGED <<lk_value, lk_consulted, lk_result>>
    /\ UNCHANGED notRegistry

\* The entries gdb calls for a value: each one in list order up to and
\* including the first whose result is not None.
RECURSIVE Consulted(_, _)
Consulted(list, value) ==
    IF list = <<>> THEN <<>>
    ELSE IF CallPrinter(Head(list).script, value).kind # "None"
    THEN <<Head(list)>>
    ELSE <<Head(list)>> \o Consulted(Tail(list), value)

\* gdb prints a value.
print_value ==
    /\ \E value \in RegistryValues :
          LET called == Consulted(pretty_printers, value)
              last == IF called = <<>> THEN Entry("experiments", 0)
                      ELSE called[Len(called)]
          IN /\ lk_value' = value
             /\ lk_consulted' = {called[i].id : i \in 1..Len(called)}
             /\ lk_result' = IF called # <<>>
                                /\ CallPrinter(last.script, value).kind # "None"
                             THEN last.id ELSE 0
    /\ UNCHANGED <<pretty_printers, registrations>>
    /\ UNCHANGED notRegistry

RegistryNext ==
    \/ source_script
    \/ print_value

(***************************************************************************)
(* PART 5: the container printers of command_test.py.                      *)
(*                                                                         *)
(* A Vector is three pointers counted in elements.  A Set or Map is an     *)
(* array of slots and two counters; the debugger may stop the inferior     *)
(* anywhere, so the counters need not agree with the slots.  A slot of a   *)
(* Set, or of a Map whose key is not a pointer, carries state_ (0 empty,   *)
(* 1 occupied, 2 removed); a slot of a Map with pointer keys carries the   *)
(* key only, and two key values stand for empty and removed.               *)
(***************************************************************************)
Containers == {"Vector", "Set", "Map", "MapPointerKey"}

\* The key values a pointer-key slot is drawn from: the smallest two and
\* the largest four of the PointerBits-bit range.
MaxPointer == 2 ^ PointerBits - 1
PointerKeys == {0, 1, MaxPointer - 3, MaxPointer - 2, MaxPointer - 1, MaxPointer}

SlotStates == {0, 1, 2}
StateSlot(s) == [state_ |-> s, key_ |-> 0]
PointerSlot(k) == [state_ |-> 1, key_ |-> k]

SlotsOf(kind) ==
    IF kind = "MapPointerKey"
    THEN UNION {[1..n -> {PointerSlot(k) : k \in PointerKeys}] : n \in 0..MaxSlots}
    ELSE UNION {[1..n -> {StateSlot(s) : s \in SlotStates}] : n \in 0..MaxSlots}

\* str(i) and the labels "Key" and "Value", as texts
LabelKey == <<75, 101, 121>>
LabelValue == <<86, 97, 108, 117, 101>>
LabelLength == <<76, 101, 110, 103, 116, 104>>

\* What a child is: the gdb.Value read from a field of slot (or element) i.
Child(field, i, val) == [field |-> field, slot |-> i, val |-> val]

NoSummary == [kind |-> "None"]

\* VectorPrinter.to_string
VectorPrinter_summary(value) ==
    LET vec_begin == value.begin_
        vec_end == value.end_
        vec_capacity_end == value.end_
        vec_size == vec_end - vec_begin
        vec_capacity == vec_capacity_end - vec_begin
    IN [kind |-> "vector", length |-> vec_size, capacity |-> vec_capacity]

\* SetPrinter.to_string, MapPrinter.to_string
SizeSummary(value) ==
    [kind |-> "Size",
     size |-> value.occupied_and_removed_slots_ - value.removed_slots_]

\* a test that takes a removed slot for an occupied one
StateIsNotEmpty(slot) == slot.state_ # 0
\* is_occupied = slot_state == 1
StateIsOccupied(slot) == slot.state_ = 1

\* a test with the threshold one lower: key_int < 2**64 - 3
PointerBelowMaxMinusTwo(slot) == slot.key_ < 2 ^ PointerBits - 3
\* is_occupied = key_int < 2**64 - 2, for keys of PointerBits bits
PointerIsOccupied(slot) == slot.key_ < 2 ^ PointerBits - 2

is_occupied(kind, slot) ==
    IF kind = "MapPointerKey" THEN PointerIsOccupied(slot)
    ELSE StateIsOccupied(slot)

\* The index of the first slot from i on that the loop yields for, and
\* Len(slots) + 1 when the loop runs off the end of the slots.
NextOccupied(kind, slots, i) ==
    LET found == {j \in i..Len(slots) : is_occupied(kind, slots[j])}
    IN IF found = {} THEN Len(slots) + 1
       ELSE CHOOSE j \in found : \A k \in found : j <= k

\* self.value: the fields of the container the printers read
ContainerValue ==
    [begin_ |-> begin_, end_ |-> end_, capacity_end_ |-> capacity_end_,
     occupied_and_removed_slots_ |-> occupied_and_removed_slots_,
     removed_slots_ |-> removed_slots_]

ContainerIdle ==
    /\ ct_kind = "Vector"
    /\ begin_ = 0 /\ end_ = 0 /\ capacity_end_ = 0
    /\ slots_ = <<>>
    /\ occupied_and_removed_slots_ = 0
    /\ removed_slots_ = 0
    /\ ct_summary = NoSummary
    /\ ct_gen = "new"
    /\ ct_i = 0
    /\ ct_value_next = FALSE
    /\ ct_out = <<>>

ContainerInit ==
    /\ ct_kind \in Containers
    /\ IF ct_kind = "Vector"
       THEN /\ begin_ \in 0..MaxSlots
            /\ end_ \in begin_..MaxSlots
            /\ capacity_end_ \in end_..MaxSlots
            /\ slots_ = <<>>
            /\ occupied_and_removed_slots_ = 0
            /\ removed_slots_ = 0
       ELSE /\ begin_ = 0 /\ end_ = 0 /\ capacity_end_ = 0
            /\ slots_ \in SlotsOf(ct_kind)
            /\ removed_slots_ \in 0..Len(slots_)
            /\ occupied_and_removed_slots_ \in removed_slots_..Len(slots_)
    /\ ct_summary = NoSummary
    /\ ct_gen = "new"
    /\ ct_i = 0
    /\ ct_value_next = FALSE
    /\ ct_out = <<>>

\* VectorPrinter.to_string
VectorPrinter_to_string ==
    /\ ct_kind = "Vector"
    /\ ct_summary = NoSummary
    /\ ct_summary' = VectorPrinter_summary(ContainerValue)
    /\ UNCHANGED <<layoutVars, ct_gen, ct_i, ct_value_next, ct_out>>
    /\ UNCHANGED notContainer

\* SetPrinter.to_string
SetPrinter_to_string ==
    /\ ct_kind = "Set"
    /\ ct_summary = NoSummary
    /\ ct_summary' = SizeSummary(ContainerValue)
    /\ UNCHANGED <<layoutVars, ct_gen, ct_i, ct_value_next, ct_out>>
    /\ UNCHANGED notContainer

\* MapPrinter.to_string
MapPrinter_to_string ==
    /\ ct_kind \in {"Map", "MapPointerKey"}
    /\ ct_summary = NoSummary
    /\ ct_summary' = SizeSummary(ContainerValue)
    /\ UNCHANGED <<layoutVars, ct_gen, ct_i, ct_value_next, ct_out>>
    /\ UNCHANGED notContainer

\* VectorPrinter.children, from one pull of the consumer to the next yield
\* or to the end of the loop.
VectorPrinter_children ==
    /\ ct_kind = "Vector"
    /\ ct_gen \in {"new", "suspended"}
    /\ LET size == end_ - begin_
       IN IF ct_i < size
          THEN /\ ct_out' = Append(ct_out,
                               <<ReprInt(ct_i), Child("begin_", ct_i, begin_ + ct_i)>>)
               /\ ct_i' = ct_i + 1
               /\ ct_gen' = "suspended"
          ELSE /\ ct_gen' = "finished"
               /\ UNCHANGED <<ct_i, ct_out>>
    /\ UNCHANGED <<layoutVars, ct_summary, ct_value_next>>
    /\ UNCHANGED notContainer

\* SetPrinter.children, from one pull to the next yield or to the end.
SetPrinter_children ==
    /\ ct_kind = "Set"
    /\ ct_gen \in {"new", "suspended"}
    /\ LET slots_num == Len(slots_)
           i == NextOccupied(ct_kind, slots_, ct_i + 1)
       IN IF i <= slots_num
          THEN /\ ct_out' = Append(ct_out,
                               <<ReprInt(i - 1), Child("key_buffer_", i - 1, 0)>>)
               /\ ct_i' = i
               /\ ct_gen' = "suspended"
          ELSE /\ ct_gen' = "finished"
               /\ ct_i' = slots_num
               /\ UNCHANGED ct_out
    /\ UNCHANGED <<layoutVars, ct_summary, ct_value_next>>
    /\ UNCHANGED notContainer

\* MapPrinter.children, from one pull to the next yield or to the end.
MapPrinter_children ==
    /\ ct_kind \in {"Map", "MapPointerKey"}
    /\ ct_gen \in {"new", "suspended"}
    /\ LET slots_num == Len(slots_)
           i == NextOccupied(ct_kind, slots_, ct_i + 1)
       IN IF ct_value_next
          THEN /\ ct_out' = Append(ct_out,
                               <<LabelValue, Child("value_buffer_", ct_i - 1, 0)>>)
               /\ ct_value_next' = FALSE
               /\ UNCHANGED <<ct_i, ct_gen>>
          ELSE IF i <= slots_num
          THEN /\ ct_out' = Append(ct_out,
                               <<LabelKey,
                                 IF ct_kind = "MapPointerKey"
                                 THEN Child("key_", i - 1, slots_[i].key_)
                                 ELSE Child("key_buffer_", i - 1, 0)>>)
               /\ ct_i' = i
               /\ ct_value_next' = TRUE
               /\ ct_gen' = "suspended"
          ELSE /\ ct_gen' = "finished"
               /\ ct_i' = slots_num
               /\ UNCHANGED <<ct_out, ct_value_next>>
    /\ UNCHANGED <<layoutVars, ct_summary>>
    /\ UNCHANGED notContainer

\* The consumer stops pulling: gdb closes the suspended generator.
container_children_close ==
    /\ ct_gen = "suspended"
    /\ ct_gen' = "closed"
    /\ UNCHANGED <<layoutVars, ct_summary, ct_i, ct_value_next, ct_out>>
    /\ UNCHANGED notContainer

ContainerNext ==
    \/ VectorPrinter_to_string
    \/ SetPrinter_to_string
    \/ MapPrinter_to_string
    \/ VectorPrinter_children
    \/ SetPrinter_children
    \/ MapPrinter_children
    \/ container_children_close

(***************************************************************************)
(* PART 6: convenience variables staged around a remote evaluation.        *)
(*                                                                         *)
(* gdb.parse_and_eval("$var->get(i)") calls a function of the inferior; it *)
(* returns the value or raises gdb.error (the inferior is a core file, the *)
(* call faults, the method was optimised out).  Convenience variables      *)
(* belong to the gdb session and outlive a command and a render.           *)
(***************************************************************************)
ConvenienceNames == {"varray_impl", "a"}
\* gdb.set_convenience_variable(name, value); value None unbinds
set_convenience_variable(conv, name, bound) == [conv EXCEPT ![name] = bound]

EvalIdle ==
    /\ convenience = [n \in ConvenienceNames |-> FALSE]
    /\ ev_op = "VArrayPrinter.children"
    /\ ev_pc = "idle"
    /\ ev_size = 0
    /\ ev_i = 0
    /\ ev_yielded = 0
    /\ ev_runs = 0

EvalInit == EvalIdle

\* gdb starts a render of a VArray: children() is called, the generator
\* has not run yet.
VArrayPrinter_children_call ==
    /\ ev_pc \in {"idle", "finished", "closed", "raised"}
    /\ ev_runs < MaxRuns
    /\ \E size \in 0..MaxSize :
          /\ ev_size' = size
    /\ ev_op' = "VArrayPrinter.children"
    /\ ev_pc' = "running"
    /\ ev_i' = 0
    /\ ev_yielded' = 0
    /\ ev_runs' = ev_runs + 1
    /\ UNCHANGED convenience
    /\ UNCHANGED notEval

\* VArrayPrinter.children, from one pull to the next yield, to the end of
\* the loop, or to the exception parse_and_eval raises.
VArrayPrinter_children ==
    /\ ev_op = "VArrayPrinter.children"
    /\ ev_pc \in {"running", "suspended"}
    /\ IF ev_i < ev_size
       THEN \E evaluates \in BOOLEAN :
               LET staged == set_convenience_variable(convenience, "varray_impl", TRUE)
               IN IF evaluates
                  THEN /\ convenience' =
                              set_convenience_variable(staged, "varray_impl", FALSE)
                       /\ ev_pc' = "suspended"
                       /\ ev_i' = ev_i + 1
                       /\ ev_yielded' = ev_yielded + 1
                  ELSE /\ convenience' = staged
                       /\ ev_pc' = "raised"
                       /\ UNCHANGED <<ev_i, ev_yielded>>
       ELSE /\ ev_pc' = "finished"
            /\ UNCHANGED <<convenience, ev_i, ev_yielded>>
    /\ UNCHANGED <<ev_op, ev_size, ev_runs>>
    /\ UNCHANGED notEval

\* The consumer stops pulling: the generator is closed at its yield.
VArrayPrinter_children_close ==
    /\ ev_op = "VArrayPrinter.children"
    /\ ev_pc = "suspended"
    /\ ev_pc' = "closed"
    /\ UNCHANGED <<convenience, ev_op, ev_size, ev_i, ev_yielded, ev_runs>>
    /\ UNCHANGED notEval

\* BlenderPrint.invoke: the command `bp <arg>`, run to its end or to the
\* first evaluation that raises.  raises_at = size means none raises.
BlenderPrint_invoke ==
    /\ ev_pc \in {"idle", "finished", "closed", "raised"}
    /\ ev_runs < MaxRuns
    /\ \E arg_evaluates \in BOOLEAN :
       \E size \in 0..MaxSize :
       \E raises_at \in 0..size :
          IF ~arg_evaluates
          THEN /\ size = 0
               /\ ev_pc' = "raised"
               /\ ev_size' = 0 /\ ev_i' = 0 /\ ev_yielded' = 0
               /\ UNCHANGED convenience
          ELSE /\ ev_size' = size
               /\ ev_i' = raises_at
               /\ ev_yielded' = raises_at
               /\ IF raises_at < size
                  THEN /\ convenience' =
                             set_convenience_variable(convenience, "a", TRUE)
                       /\ ev_pc' = "raised"
                  ELSE /\ convenience' =
                             IF size > 0
                             THEN set_convenience_variable(convenience, "a", FALSE)
                             ELSE convenience
                       /\ ev_pc' = "finished"
    /\ ev_op' = "BlenderPrint.invoke"
    /\ ev_runs' = ev_runs + 1
    /\ UNCHANGED notEval

EvalNext ==
    \/ VArrayPrinter_children_call
    \/ VArrayPrinter_children
    \/ VArrayPrinter_children_close
    \/ BlenderPrint_invoke

(***************************************************************************)
(* PART 7: lookup_type and lookup_enum_value.                              *)
(*                                                                         *)
(* experiments.py decorates both with @functools.lru_cache, written        *)
(* without arguments: a least-recently-used cache of maxsize entries per   *)
(* function, keyed by the argument string.  blender_gdb.py defines both    *)
(* without a decorator.  A name is [base, stars]: a symbol name followed   *)
(* by that many "*".                                                       *)
(***************************************************************************)
LookupFunctions == {"lookup_type", "lookup_enum_value"}
NumSymbols == LruMaxsize + 1
\* The argument strings of the calls: symbol names, and for experiments.py's
\* lookup_type also a pointer type name such as "Mesh *".
LookupNames(file, fn) ==
    {[base |-> b, stars |-> 0] : b \in 1..NumSymbols}
    \cup (IF fn = "lookup_type" /\ file = "experiments"
          THEN {[base |-> 1, stars |-> 1]} ELSE {})

\* gdb.lookup_global_symbol(name): the symbol of the inferior's symbol table
lookup_global_symbol(base) == [symbol |-> base]

\* experiments.py lookup_type(name), the decorated function's body
lookup_type_experiments(name) ==
    LET base_name == name.base
        base_type == [type |-> lookup_global_symbol(base_name).symbol, pointers |-> 0]
    IN [base_type EXCEPT !.pointers = name.stars]

\* blender_gdb.py lookup_type(name)
lookup_type_blender_gdb(name) ==
    [type |-> lookup_global_symbol(name.base).symbol, pointers |-> 0]

\* lookup_enum_value(name), the same in both scripts
lookup_enum_value(name) ==
    [type |-> lookup_global_symbol(name.base).symbol, pointers |-> 0]

LookupBody(file, fn, name) ==
    IF fn = "lookup_enum_value" THEN lookup_enum_value(name)
    ELSE IF file = "experiments" THEN lookup_type_experiments(name)
    ELSE lookup_type_blender_gdb(name)

\* functools.lru_cache: with maxsize entries stored, the least recently
\* used one (the first of the list) is dropped before a new one is stored
EvictOldest(entries) ==
    IF Len(entries) >= LruMaxsize THEN Tail(entries) ELSE entries

CacheIndex(entries, name) == {i \in 1..Len(entries) : entries[i].name = name}
Without(entries, i) ==
    [k \in 1..(Len(entries) - 1) |-> IF k < i THEN entries[k] ELSE entries[k + 1]]

NoCall == [fn |-> "none", name |-> [base |-> 0, stars |-> 0],
           result |-> [type |-> 0, pointers |-> 0], queried |-> FALSE]

CacheIdle ==
    /\ lookup_file = "experiments"
    /\ lru = [fn \in LookupFunctions |-> <<>>]
    /\ first_result = [fn \in LookupFunctions |-> <<>>]
    /\ last_call = NoCall
    /\ last_first = <<>>
    /\ lookup_calls = 0

CacheInit ==
    /\ lookup_file \in {"experiments", "blender_gdb"}
    /\ lru = [fn \in LookupFunctions |-> <<>>]
    /\ first_result = [fn \in LookupFunctions |-> <<>>]
    /\ last_call = NoCall
    /\ last_first = <<>>
    /\ lookup_calls = 0

\* What every call leaves behind for the session's history.
Record(fn, name, result, queried) ==
    /\ last_call' = [fn |-> fn, name |-> name, result |-> result,
                     queried |-> queried]
    /\ last_first' = LET known == CacheIndex(first_result[fn], name)
                     IN IF known = {} THEN <<>>
                        ELSE <<first_result[fn][CHOOSE i \in known : TRUE].result>>
    /\ first_result' =
          IF CacheIndex(first_result[fn], name) = {}
          THEN [first_result EXCEPT
                   ![fn] = Append(@, [name |-> name, result |-> result])]
          ELSE first_result
    /\ lookup_calls' = lookup_calls + 1

\* experiments.py: a call of the lru_cache wrapper of fn
CachedCall(fn) ==
    /\ lookup_file = "experiments"
    /\ lookup_calls < MaxCalls
    /\ \E name \in LookupNames("experiments", fn) :
          LET hit == CacheIndex(lru[fn], name)
          IN IF hit # {}
             THEN LET i == CHOOSE i \in hit : TRUE
                      entry == lru[fn][i]
                  IN /\ lru' = [lru EXCEPT ![fn] = Append(Without(@, i), entry)]
                     /\ Record(fn, name, entry.result, FALSE)
             ELSE LET result == LookupBody("experiments", fn, name)
                  IN /\ lru' = [lru EXCEPT
                                   ![fn] = Append(EvictOldest(@),
                                                  [name |-> name, result |-> result])]
                     /\ Record(fn, name, result, TRUE)
    /\ UNCHANGED lookup_file
    /\ UNCHANGED notCache

\* blender_gdb.py: a call of fn
PlainCall(fn) ==
    /\ lookup_file = "blender_gdb"
    /\ lookup_calls < MaxCalls
    /\ \E name \in LookupNames("blender_gdb", fn) :
          Record(fn, name, LookupBody("blender_gdb", fn, name), TRUE)
    /\ UNCHANGED <<lookup_file, lru>>
    /\ UNCHANGED notCache

lookup_type_cached == CachedCall("lookup_type")
lookup_enum_value_cached == CachedCall("lookup_enum_value")
lookup_type_plain == PlainCall("lookup_type")
lookup_enum_value_plain == PlainCall("lookup_enum_value")

CacheNext ==
    \/ lookup_type_cached
    \/ lookup_enum_value_cached
    \/ lookup_type_plain
    \/ lookup_enum_value_plain

(***************************************************************************)
(* PART 8: the linked-list renderers as child generators.                  *)
(*                                                                         *)
(* The list is well formed: nodes 1..lz_n, next of node i is i + 1 and     *)
(* prev is i - 1, null at both ends.  lz_reads counts the reads of a       *)
(* node's next or prev field (element[pointer_name], link["next"]).        *)
(***************************************************************************)
ListRenderers ==
    {"print_ListBase", "TypedListBase.children", "blender_gdb.print_ListBase"}

\* get_pointer_chain(first, "next") on the well-formed list of n nodes
NextChain(first, n) ==
    IF first = nullptr THEN <<>> ELSE [i \in 1..(n - first + 1) |-> first + i - 1]
\* get_pointer_chain(first, "prev")
PrevChain(first) ==
    IF first = nullptr THEN <<>> ELSE [i \in 1..first |-> first - i + 1]
\* The fields get_pointer_chain reads: one per element it appends.
ChainReads(chain) == Len(chain)

\* get_full_double_linked_list(any_link) on the well-formed list
FullDoubleLinkedList(any_link, n) ==
    LET previous == PrevChain(any_link)
        following == NextChain(any_link, n)
    IN [links |-> Reverse(previous) \o Slice1(following),
        reads |-> ChainReads(previous) + ChainReads(following)]

\* get_listbase_elements(listbase), listbase_len(listbase)
ListbaseElements(n) ==
    LET first == IF n = 0 THEN nullptr ELSE 1
    IN [links |-> NextChain(first, n), reads |-> ChainReads(NextChain(first, n))]

\* The statements of a renderer before its first yield: the list it builds
\* and the fields it reads for it.
Materialise(renderer, any_link, n) ==
    IF renderer = "TypedListBase.children"
    THEN FullDoubleLinkedList(any_link, n)
    ELSE ListbaseElements(n)

\* The children of a renderer, in order, from the list it built.
RendererChildren(renderer, links) ==
    CASE renderer = "print_ListBase" ->
            <<<<LabelLength, Len(links)>>>>
            \o [i \in 1..Len(links) |-> <<ReprInt(i - 1), links[i]>>]
      [] renderer = "TypedListBase.children" ->
            [i \in 1..Len(links) |-> <<ReprInt(i - 1), links[i]>>]
      [] OTHER -> <<<<LabelLength, Len(links)>>>>

LazyIdle ==
    /\ lz_renderer = "print_ListBase"
    /\ lz_n = 0
    /\ lz_any_link = nullptr
    /\ lz_want = 0
    /\ lz_state = "new"
    /\ lz_links = <<>>
    /\ lz_out = <<>>
    /\ lz_reads = 0

LazyInit ==
    /\ lz_renderer \in ListRenderers
    /\ lz_n \in 0..NumNodes
    /\ lz_any_link \in 0..lz_n
    /\ (lz_any_link = nullptr) = (lz_n = 0 \/ lz_renderer # "TypedListBase.children")
    /\ lz_want \in 1..(NumNodes + 1)
    /\ lz_state = "new"
    /\ lz_links = <<>>
    /\ lz_out = <<>>
    /\ lz_reads = 0

\* The first pull: the renderer runs from its start to its first yield, or
\* to its end when it has no child.
list_renderer_first ==
    /\ lz_state = "new"
    /\ LET built == Materialise(lz_renderer, lz_any_link, lz_n)
           children == RendererChildren(lz_renderer, built.links)
       IN /\ lz_links' = built.links
          /\ lz_reads' = lz_reads + built.reads
          /\ IF children = <<>>
             THEN lz_state' = "finished" /\ UNCHANGED lz_out
             ELSE lz_state' = "suspended" /\ lz_out' = <<children[1]>>
    /\ UNCHANGED <<lz_renderer, lz_n, lz_any_link, lz_want>>
    /\ UNCHANGED notLazy

\* A later pull: the next child comes from the list already built.
list_renderer_next ==
    /\ lz_state = "suspended"
    /\ Len(lz_out) < lz_want
    /\ LET children == RendererChildren(lz_renderer, lz_links)
       IN IF Len(lz_out) < Len(children)
          THEN /\ lz_out' = Append(lz_out, children[Len(lz_out) + 1])
               /\ UNCHANGED lz_state
          ELSE /\ lz_state' = "finished"
               /\ UNCHANGED lz_out
    /\ UNCHANGED <<lz_renderer, lz_n, lz_any_link, lz_want, lz_links, lz_reads>>
    /\ UNCHANGED notLazy

\* The consumer has the children it wanted and closes the generator.
list_renderer_close ==
    /\ lz_state = "suspended"
    /\ Len(lz_out) >= lz_want
    /\ lz_state' = "closed"
    /\ UNCHANGED <<lz_renderer, lz_n, lz_any_link, lz_want, lz_links, lz_out,
                   lz_reads>>
    /\ UNCHANGED notLazy

LazyNext ==
    \/ list_renderer_first
    \/ list_renderer_next
    \/ list_renderer_close

(***************************************************************************)
(* Specifications: one per part.                                           *)
(***************************************************************************)
InitList ==
    /\ ListInit
    /\ StructIdle /\ ChannelIdle /\ RegistryIdle /\ ContainerIdle
    /\ EvalIdle /\ CacheIdle /\ LazyIdle
SpecList == InitList /\ [][ListNext]_vars

InitStruct ==
    /\ StructInit
    /\ ListIdle /\ ChannelIdle /\ RegistryIdle /\ ContainerIdle
    /\ EvalIdle /\ CacheIdle /\ LazyIdle
SpecStruct == InitStruct /\ [][StructNext]_vars

InitChannel ==
    /\ ChannelInit
    /\ ListIdle /\ StructIdle /\ RegistryIdle /\ ContainerIdle
    /\ EvalIdle /\ CacheIdle /\ LazyIdle
SpecChannel == InitChannel /\ [][ChannelNext]_vars

InitRegistry ==
    /\ RegistryInit
    /\ ListIdle /\ StructIdle /\ ChannelIdle /\ ContainerIdle
    /\ EvalIdle /\ CacheIdle /\ LazyIdle
SpecRegistry == InitRegistry /\ [][RegistryNext]_vars

InitContainer ==
    /\ ContainerInit
    /\ ListIdle /\ StructIdle /\ ChannelIdle /\ RegistryIdle
    /\ EvalIdle /\ CacheIdle /\ LazyIdle
SpecContainer == InitContainer /\ [][ContainerNext]_vars

InitEval ==
    /\ EvalInit
    /\ ListIdle /\ StructIdle /\ ChannelIdle /\ RegistryIdle
    /\ ContainerIdle /\ CacheIdle /\ LazyIdle
SpecEval == InitEval /\ [][EvalNext]_vars

InitCache ==
    /\ CacheInit
    /\ ListIdle /\ StructIdle /\ ChannelIdle /\ RegistryIdle
    /\ ContainerIdle /\ EvalIdle /\ LazyIdle
SpecCache == InitCache /\ [][CacheNext]_vars

InitLazy ==
    /\ LazyInit
    /\ ListIdle /\ StructIdle /\ ChannelIdle /\ RegistryIdle
    /\ ContainerIdle /\ EvalIdle /\ CacheIdle
SpecLazy == InitLazy /\ [][LazyNext]_vars

(***************************************************************************)
(* The claims.                                                             *)
(***************************************************************************)
\* C1: when producing one child of a struct printer fails with a memory
\* error, the child sequence still completes, the failed child is replaced
\* by a diagnostic marker, and every raw declared field is still produced.
C1_FailureContained ==
    "MemoryError" \in sp_failed =>
        /\ sp_state = "finished"
        /\ \E i \in 1..Len(sp_out) : sp_out[i][2] = "<memory error>"
        /\ \A f \in Range(Fields(StructOf(sp_class, sp_printer))) :
               <<f, "raw field">> \in Range(sp_out)

\* C2: for every payload the channel encodes, decoding the encoded byte
\* array yields a value equal to the payload: extract_dummy_value_printer
\* returns an equal DummyValue, and the DisplayStringPrinter chosen for a
\* display string returns the text from extract_display_string.
C2_RoundTrip ==
    (ch_payload.cls # "None" /\ ~ch_cut) =>
        /\ (ch_file = "experiments" /\ ch_pc = "dispatched")
              => (ch_extract.kind = "value" /\ ch_extract.val = ch_payload)
        /\ (ch_file = "blender_gdb" /\ ch_pc = "dispatched")
              => ch_printer = Printer("DisplayStringPrinter", "None")
        /\ (ch_file = "blender_gdb" /\ ch_pc = "rendered")
              => (ch_text.kind = "value" /\ ch_text.val = ch_payload.text)

CarriesSentinel(v) ==
    /\ v.code = "ARRAY"
    /\ v.tsize = 1
    /\ v.readable
    /\ StartsWith(v.bytes, dummy_type_prefix)

SuffixUnparsable(v) ==
    LET text == Utf8Decode(Drop(v.bytes, Len(dummy_type_prefix)))
    IN ~text.ok \/ ~Eval(text.text).ok

\* C3: for a byte array that carries the sentinel and whose suffix cannot
\* be parsed or evaluated, extract_dummy_value_printer raises nothing and
\* reports "not an encoded value", and dispatch goes on to the ordinary
\* matching steps (a registered type name still gets its renderer).
C3_UnparsableIsNotEncoded ==
    (/\ ch_file = "experiments"
     /\ ch_pc = "dispatched"
     /\ CarriesSentinel(ch_value)
     /\ SuffixUnparsable(ch_value)) =>
        /\ ch_extract.kind = "None"
        /\ ch_traceback = 0
        /\ ch_value.name \in registered_struct_printers(ch_file)
              => ch_printer = Printer("SimpleStructPrinter", ch_value.name)

\* The registration that is the newest one.
Newest == Len(registrations)

Replaced(id) ==
    \E later \in (id + 1)..Newest :
        PrinterName(registrations[later]) = PrinterName(registrations[id])

C6_StructuralFallback ==
    (/\ ch_pc = "dispatched"
     /\ ch_value.code \in {"STRUCT", "TYPEDEF", "PTR"}
     /\ ~ch_value.null
     /\ ch_value.struct \notin registered_struct_printers(ch_file)
     /\ FirstFieldIsID(ch_value.struct)) =>
        ch_printer = Printer("GenericIDPrinter", ch_value.struct)

\* C4: get_full_double_linked_list ends on every prev/next graph after a
\* number of loop tests linear in the number of nodes: each of its two walks
\* appends a node at most once and tests its loop condition once more.
C4_DoubleListWalkLinear ==
    list_call = "get_full_double_linked_list" =>
        /\ Len(elements) <= NumNodes
        /\ iterations <= 2 * (NumNodes + 1)

\* C10: the walk of a singly linked list from `first` along `next` stops at
\* null or at the first repeated address and counts each node once, in
\* listbase_len (blender_gdb.py) and in get_listbase_elements
\* (experiments.py).
C10_ListWalkStopsAtRepeat ==
    list_call \in {"listbase_len", "get_listbase_elements"} =>
        /\ count <= NumNodes
        /\ NoRepeat(Addresses(elements))

\* C7: the summary of VectorPrinter.to_string reports length end - begin and
\* capacity capacity_end - begin, whatever the three pointers are.
C7_SummaryReportsCapacity ==
    ct_summary.kind = "vector" =>
        /\ ct_summary.length = end_ - begin_
        /\ ct_summary.capacity = capacity_end_ - begin_

\* The slots of the layout that hold an element: state_ is 1, or, with
\* pointer keys, the key is neither of the two largest values.
ElementSlots ==
    {i \in 1..Len(slots_) :
        IF ct_kind = "MapPointerKey"
        THEN slots_[i].key_ \notin {MaxPointer, MaxPointer - 1}
        ELSE slots_[i].state_ = 1}
NumElements == Cardinality(ElementSlots)
\* The slot of the k-th element, in slot order.
ElementSlot(k) ==
    CHOOSE i \in ElementSlots : Cardinality({j \in ElementSlots : j <= i}) = k
CountersAgree == occupied_and_removed_slots_ - removed_slots_ = NumElements

\* C8 (as stated): for a Set or Map layout of N elements whose counters
\* agree with it, the reported size is N and the finished child sequence
\* has exactly N pairs, the k-th one read from the slot of the k-th element.
C8_OnePairPerElement ==
    (ct_kind \in {"Set", "Map", "MapPointerKey"} /\ CountersAgree) =>
        /\ ct_summary.kind = "Size" => ct_summary.size = NumElements
        /\ ct_gen = "finished" =>
              /\ Len(ct_out) = NumElements
              /\ \A k \in 1..Len(ct_out) : ct_out[k][2].slot = ElementSlot(k) - 1

\* C8 (amended): for a Set or Map layout of N elements whose counters agree
\* with it, the reported size is N; the finished child sequence of a Set has
\* N pairs, the k-th labelled with the slot index of the k-th element and
\* holding its key; that of a Map has 2N pairs, for the k-th element a
\* ("Key", key) pair followed by a ("Value", value) pair; nothing is
\* produced for an empty or a removed slot.
C8_SetPairsAndMapKeyValuePairs ==
    (ct_kind \in {"Set", "Map", "MapPointerKey"} /\ CountersAgree) =>
        /\ ct_summary.kind = "Size" => ct_summary.size = NumElements
        /\ (ct_gen = "finished" /\ ct_kind = "Set") =>
              ct_out = [k \in 1..NumElements |->
                          <<ReprInt(ElementSlot(k) - 1),
                            Child("key_buffer_", ElementSlot(k) - 1, 0)>>]
        /\ (ct_gen = "finished" /\ ct_kind \in {"Map", "MapPointerKey"}) =>
              /\ Len(ct_out) = 2 * NumElements
              /\ \A k \in 1..NumElements :
                    /\ ct_out[2 * k - 1][1] = LabelKey
                    /\ ct_out[2 * k - 1][2].slot = ElementSlot(k) - 1
                    /\ ct_out[2 * k - 1][2].field \in {"key_", "key_buffer_"}
                    /\ ct_kind = "MapPointerKey" =>
                          ct_out[2 * k - 1][2].val = slots_[ElementSlot(k)].key_
                    /\ ct_out[2 * k] =
                          <<LabelValue,
                            Child("value_buffer_", ElementSlot(k) - 1, 0)>>

\* A Map of two elements with a removed slot between them has been
\* summarised and its four children read to the end.
C8_Witness ==
    /\ ct_kind = "Map"
    /\ CountersAgree
    /\ NumElements = 2
    /\ Len(slots_) = 3
    /\ slots_[2].state_ = 2
    /\ ct_summary.kind = "Size"
    /\ ct_gen = "finished"
    /\ Len(ct_out) = 4

\* C9: outside a remote evaluation -- the generator suspended at its yield,
\* finished, closed by its consumer, or ended by an exception, and a command
\* that returned or raised -- no staged convenience variable is bound.
C9_StagedVariableUnbound ==
    ev_pc \in {"suspended", "finished", "closed", "raised"} =>
        \A name \in ConvenienceNames : ~convenience[name]

\* C11: the sequence get_full_double_linked_list returns holds no node
\* address more than once, whatever the prev/next pointer graph and the
\* starting node are.
C11_NoAddressTwice ==
    (list_call = "get_full_double_linked_list" /\ list_pc = "done") =>
        NoRepeat(list_result)

\* C12: a call of lookup_type or lookup_enum_value with a name that has
\* returned before in this session returns the same result and does not
\* query gdb.lookup_global_symbol again, whatever was resolved in between.
C12_MemoizedForSession ==
    (last_call.fn # "none" /\ last_first # <<>>) =>
        /\ ~last_call.queried
        /\ last_call.result = last_first[1]

\* C13: when the consumer has pulled k children of a linked-list renderer,
\* the renderer has read no more node fields than those k children need:
\* at most k + 1, whatever the length of the list.
C13_ReadsFollowPulls ==
    lz_reads <= Len(lz_out) + 1

\* The slots MapPrinter.children has yielded a "Key" child for.
KeySlots ==
    {ct_out[j][2].slot + 1 : j \in {k \in 1..Len(ct_out) : ct_out[k][1] = LabelKey}}
\* The slots it has yielded a "Value" child for.
ValueSlots ==
    {ct_out[j][2].slot + 1 : j \in {k \in 1..Len(ct_out) : ct_out[k][1] = LabelValue}}

\* C14 (as stated): in a Map with pointer keys, the slots that yield their
\* Key/Value children are exactly those whose key is less than
\* max_uint - 2.
C14_OccupiedBelowMaxMinusTwo ==
    (ct_kind = "MapPointerKey" /\ ct_gen = "finished") =>
        /\ KeySlots = {i \in 1..Len(slots_) : slots_[i].key_ < MaxPointer - 2}
        /\ ValueSlots = KeySlots

\* C14 (amended): in a Map with pointer keys, the slots that yield their
\* Key/Value children are exactly those whose key is less than
\* max_uint - 1 (key_int < 2**64 - 2); the two largest key values,
\* max_uint - 1 and max_uint, are the only ones not treated as occupied.
C14_OccupiedBelowMaxMinusOne ==
    (ct_kind = "MapPointerKey" /\ ct_gen = "finished") =>
        /\ KeySlots = {i \in 1..Len(slots_) : slots_[i].key_ < MaxPointer - 1}
        /\ ValueSlots = KeySlots
        /\ {k \in 0..MaxPointer : ~is_occupied(ct_kind, PointerSlot(k))}
              = {MaxPointer - 1, MaxPointer}

\* A Map with pointer keys max_uint - 2, max_uint - 1 and max_uint has been
\* read to the end: the first slot gave its children, the other two none.
C14_Witness ==
    /\ ct_kind = "MapPointerKey"
    /\ ct_gen = "finished"
    /\ Len(slots_) = 3
    /\ slots_[1].key_ = MaxPointer - 2
    /\ slots_[2].key_ = MaxPointer - 1
    /\ slots_[3].key_ = MaxPointer
    /\ KeySlots = {1}

====
